---- MODULE Spec2Model ----
(***************************************************************************)
(* @corvid-agent/retry: retry with backoff, and the circuit breaker.       *)
(*                                                                         *)
(* JavaScript runs one synchronous segment at a time; a segment ends at an *)
(* await.  Every action below is one such segment of src/src/index.ts:     *)
(* the code from a resumption (a call, a settled promise, a timer, an      *)
(* abort event) up to the next await or to the end of the function.  An    *)
(* operation that throws synchronously is the segment that starts it       *)
(* followed at once by the segment that handles its failure.               *)
(***************************************************************************)
EXTENDS Integers, Sequences, FiniteSets, TLC

VARIABLES
    mode,       \* which entry point the caller uses: "retry", "callWithRetry", "direct",
                \* or "computeDelay" for the backoff calculation on its own
    options,    \* RetryOptions of the retry run
    aborted,    \* options.signal.aborted
    run,        \* the retry() invocation: loop position, locals, outcome, trace
    config,     \* CircuitBreakerOptions
    breaker,    \* the CircuitBreaker's private fields, and the hook calls of the last step
    inflight,   \* calls of breaker.call() made directly whose operation is still running
    now,        \* Date.now()
    step,       \* the last operation performed and what it gave back; for computeDelay
                \* on its own, its arguments and the delay returned
    sinceSuccess, \* operations that failed in a direct call() since the last one that
                  \* succeeded, counted up to MaxFailures
    probes,     \* operations that succeeded in a direct call() begun half-open, since
                \* the breaker last became half-open
    started     \* operations started by a direct call() since the breaker became
                \* half-open; 0 while it is not half-open

vars == <<mode, options, aborted, run, config, breaker, inflight, now, step,
          sinceSuccess, probes, started>>

(***************************************************************************)
(* Bounds of the model.                                                    *)
(***************************************************************************)
MaxAttemptsBound == 3    \* options.maxAttempts ranges over 0..MaxAttemptsBound
MaxDelayBound == 2       \* options.baseDelay and options.maxDelay range over 0..MaxDelayBound
MaxFactor == 2           \* options.factor ranges over 0..MaxFactor
RandomSteps == 2         \* Math.random() ranges over k / RandomSteps, 0 <= k < RandomSteps
MaxThreshold == 2        \* failureThreshold and halfOpenSuccesses range over 1..MaxThreshold
MaxResetTimeout == 2     \* resetTimeout ranges over 0..MaxResetTimeout
MaxTicks == 3            \* the clock advances at most this far
MaxFailures == 3         \* operations stop failing once breaker.failures reaches this
MaxOutstanding == 2      \* direct calls outstanding at once
MaxSuccesses == 3        \* operations stop succeeding once breaker.successes reaches this

Min(a, b) == IF a <= b THEN a ELSE b
Max(a, b) == IF a >= b THEN a ELSE b

RECURSIVE Pow(_, _)
Pow(x, n) == IF n <= 0 THEN 1 ELSE x * Pow(x, n - 1)

(***************************************************************************)
(* Errors and values.                                                      *)
(***************************************************************************)
OpErrors == {[name |-> "ErrA"], [name |-> "ErrB"]}
ErrorNames == {"ErrA", "ErrB", "CircuitOpenError"}
Values == {"v1", "v2"}
NoError == [name |-> "none"]
HookError == [name |-> "HookError"]      \* what a throwing onStateChange throws
AbortReason == [name |-> "AbortError"]
RangeError == [name |-> "RangeError"]

RetryError(attempts, lastError) ==
    [name |-> "RetryError", attempts |-> attempts, lastError |-> lastError]

CircuitOpenError(failures) ==
    [name |-> "CircuitOpenError", state |-> "open", failures |-> failures]

(***************************************************************************)
(* CircuitBreaker.  A breaker value b carries the four private fields,     *)
(* hook: whether onStateChange returns or throws when called, and          *)
(* hookCalls, the calls of onStateChange made so far in the current step.  *)
(* transition() sets the state before it calls the hook, so a throwing     *)
(* hook leaves the new state in place and cuts short what follows the      *)
(* call of transition().                                                   *)
(***************************************************************************)
\* onStateChange was called between b and b1, and threw.
Throws(b, b1) == b.hook = "throws" /\ Len(b1.hookCalls) > Len(b.hookCalls)

\* onStateChange has thrown in the current step.
Thrown(b) == b.hook = "throws" /\ b.hookCalls # <<>>

\* Mutant: the hook is called whether or not the state changes.
transition_unguarded(b, to) ==
    [b EXCEPT !.state = to, !.hookCalls = Append(@, <<b.state, to>>)]

transition(b, to) ==
    IF b.state # to
    THEN [b EXCEPT !.state = to, !.hookCalls = Append(@, <<b.state, to>>)]
    ELSE b

\* Mutant: the comparison with resetTimeout is inverted.
checkHalfOpen_inverted(b, t) ==
    IF b.state = "open" /\ t - b.lastFailureTime <= config.resetTimeout
    THEN [transition(b, "half-open") EXCEPT !.successes = 0]
    ELSE b

\* Mutant: the comparison with resetTimeout is strict.
checkHalfOpen_strict(b, t) ==
    IF b.state = "open" /\ t - b.lastFailureTime > config.resetTimeout
    THEN [transition(b, "half-open") EXCEPT !.successes = 0]
    ELSE b

\* Mutant: an open breaker turns half-open on any access, whatever the time.
checkHalfOpen_untimed(b, t) ==
    IF b.state = "open"
    THEN [transition(b, "half-open") EXCEPT !.successes = 0]
    ELSE b

\* Mutant: the success count is not cleared when the breaker turns half-open.
checkHalfOpen_keepsSuccesses(b, t) ==
    IF b.state = "open" /\ t - b.lastFailureTime >= config.resetTimeout
    THEN transition(b, "half-open")
    ELSE b

checkHalfOpen(b, t) ==
    IF b.state = "open" /\ t - b.lastFailureTime >= config.resetTimeout
    THEN LET b1 == transition(b, "half-open")
         IN IF Throws(b, b1) THEN b1 ELSE [b1 EXCEPT !.successes = 0]
    ELSE b

\* Mutant: one success more than halfOpenSuccesses is needed to close.
onSuccess_late(b) ==
    IF b.state = "half-open"
    THEN LET b1 == [b EXCEPT !.successes = @ + 1]
         IN IF b1.successes > config.halfOpenSuccesses
            THEN [transition(b1, "closed") EXCEPT !.failures = 0, !.successes = 0]
            ELSE b1
    ELSE [b EXCEPT !.failures = 0]

\* Mutant: closing the breaker does not clear the failure count.
onSuccess_keepsFailures(b) ==
    IF b.state = "half-open"
    THEN LET b1 == [b EXCEPT !.successes = @ + 1]
         IN IF b1.successes >= config.halfOpenSuccesses
            THEN [transition(b1, "closed") EXCEPT !.successes = 0]
            ELSE b1
    ELSE [b EXCEPT !.failures = 0]

onSuccess(b) ==
    IF b.state = "half-open"
    THEN LET b1 == [b EXCEPT !.successes = @ + 1]
             b2 == transition(b1, "closed")
         IN IF b1.successes >= config.halfOpenSuccesses
            THEN IF Throws(b1, b2)
                 THEN b2
                 ELSE [b2 EXCEPT !.failures = 0, !.successes = 0]
            ELSE b1
    ELSE [b EXCEPT !.failures = 0]

\* Mutant: the breaker opens one failure after failureThreshold.
onFailure_late(b, t) ==
    LET b1 == [b EXCEPT !.failures = @ + 1, !.lastFailureTime = t]
    IN IF b1.state = "half-open"
       THEN transition(b1, "open")
       ELSE IF b1.failures > config.failureThreshold
            THEN transition(b1, "open")
            ELSE b1

onFailure(b, t) ==
    LET b1 == [b EXCEPT !.failures = @ + 1, !.lastFailureTime = t]
    IN IF b1.state = "half-open"
       THEN transition(b1, "open")
       ELSE IF b1.failures >= config.failureThreshold
            THEN transition(b1, "open")
            ELSE b1

\* Mutant: reset() leaves the failure count as it is.
reset_keepsFailures(b) == [transition(b, "closed") EXCEPT !.successes = 0]

reset(b) ==
    LET b1 == transition(b, "closed")
    IN IF Throws(b, b1) THEN b1 ELSE [b1 EXCEPT !.failures = 0, !.successes = 0]

\* call(), lines 255-262, once await fn() has resolved: onSuccess(), and when that
\* throws, the catch block's onFailure().
callReturns(b, t) ==
    LET b1 == onSuccess(b)
    IN IF Throws(b, b1) THEN onFailure(b1, t) ELSE b1

\* call(), lines 259-262, once await fn() has rejected: onFailure().
callThrows(b, t) == onFailure(b, t)

\* What call() rejects with after its operation settled leaving the breaker as b:
\* the hook's error when the hook threw, else the operation's error (NoError:
\* call() returns the operation's result).
SettledWith(b, error) == IF Thrown(b) THEN HookError ELSE error

\* The breaker as a step finds it: no hook call made yet in this step.
Entering(b) == [b EXCEPT !.hookCalls = <<>>]

\* call(), lines 249-253: the gate.  TRUE when the call is let through.
Admits(b) == b.state # "open"

\* call() reaches await fn(): checkHalfOpen() did not throw and the gate is open.
Invokes(b) == ~Thrown(b) /\ Admits(b)

(***************************************************************************)
(* What a step reports: the public operation performed last, the error it  *)
(* threw (NoError: none), what a getter returned, whether the wrapped      *)
(* operation was started, and the breaker's state when the step began.     *)
(***************************************************************************)
StepOf(op) ==
    [op |-> op, from |-> breaker.state, error |-> NoError, state |-> "-",
     failures |-> 0, invoked |-> FALSE, result |-> "-"]

CallStep(b) ==
    [StepOf("call") EXCEPT
        !.error = IF Thrown(b) THEN HookError
                  ELSE IF Admits(b) THEN NoError ELSE CircuitOpenError(b.failures),
        !.invoked = Invokes(b)]

(***************************************************************************)
(* retry().  A run value r carries the loop's locals (attempt, lastError), *)
(* where the run stands (pc), when its timer is due, the outcome of the    *)
(* returned promise, and log: the calls the run made, in order.            *)
(***************************************************************************)
Event(kind, attempt) ==
    [kind |-> kind, attempt |-> attempt, error |-> NoError, delay |-> 0,
     answer |-> TRUE, data |-> "-"]

Pending == [kind |-> "pending", data |-> "-", attempts |-> 0, error |-> NoError]
Fulfilled(data, attempts) ==
    [kind |-> "fulfilled", data |-> data, attempts |-> attempts, error |-> NoError]
Rejected(error) ==
    [kind |-> "rejected", data |-> "-", attempts |-> 0, error |-> error]

Logged(r, e) == [r EXCEPT !.log = Append(@, e)]
Settle(r, out) == [r EXCEPT !.pc = "done", !.outcome = out]

\* Mutant: the exponential term is not capped when jitter is off.
computeDelay_uncapped(attempt, baseDelay, maxDelay, factor, jitter, rnd) ==
    LET exponential == baseDelay * Pow(factor, attempt - 1)
        capped == Min(exponential, maxDelay)
    IN IF ~jitter THEN exponential ELSE (rnd * capped) \div RandomSteps

\* Mutant: the jittered delay is rounded up, not down.
computeDelay_ceil(attempt, baseDelay, maxDelay, factor, jitter, rnd) ==
    LET exponential == baseDelay * Pow(factor, attempt - 1)
        capped == Min(exponential, maxDelay)
    IN IF ~jitter THEN capped ELSE (rnd * capped + RandomSteps - 1) \div RandomSteps

\* Math.random() is rnd / RandomSteps.
computeDelay(attempt, baseDelay, maxDelay, factor, jitter, rnd) ==
    LET exponential == baseDelay * Pow(factor, attempt - 1)
        capped == Min(exponential, maxDelay)
    IN IF ~jitter THEN capped ELSE (rnd * capped) \div RandomSteps

\* sleep(ms, signal): rejects at once on an aborted signal, else sets the timer.
sleep(r, ms, ab, t) ==
    IF ab
    THEN Settle(r, Rejected(AbortReason))
    ELSE [Logged(r, [Event("sleep", r.attempt) EXCEPT !.delay = ms])
            EXCEPT !.pc = "sleeping", !.sleepUntil = t + ms]

\* The caller's retryIf, a function of the error and the attempt: it accepts the
\* errors named in accepts, up to attempt until.
callerRetryIf(error, attempt) ==
    /\ error.name \in options.retryIf.accepts
    /\ attempt <= options.retryIf.until

\* Mutant: CircuitOpenError is passed to the caller's retryIf like any error.
wrappedRetryIf_deferring(error, attempt) ==
    IF options.retryIf.present
    THEN [verdict |-> callerRetryIf(error, attempt), asked |-> TRUE]
    ELSE [verdict |-> TRUE, asked |-> FALSE]

\* The retryIf that callWithRetry hands to retry(): what it returns, and the
\* calls of the caller's retryIf it makes.
wrappedRetryIf(error, attempt) ==
    IF error.name = "CircuitOpenError"
    THEN [verdict |-> FALSE, asked |-> FALSE]
    ELSE IF options.retryIf.present
         THEN [verdict |-> callerRetryIf(error, attempt), asked |-> TRUE]
         ELSE [verdict |-> TRUE, asked |-> FALSE]

\* Line 163, retryIf && !retryIf(error, attempt): whether the error is rethrown,
\* and whether the caller's retryIf was called.
refuses(error, attempt) ==
    IF mode = "callWithRetry"
    THEN [rethrow |-> ~wrappedRetryIf(error, attempt).verdict,
          asked |-> wrappedRetryIf(error, attempt).asked]
    ELSE IF options.retryIf.present
         THEN [rethrow |-> ~callerRetryIf(error, attempt), asked |-> TRUE]
         ELSE [rethrow |-> FALSE, asked |-> FALSE]

\* throw new RetryError(...) after the loop.
exhausted(r) == Settle(r, Rejected(RetryError(options.maxAttempts, r.lastError)))

\* Mutant: the attempts-exhausted check comes before the retryIf check.
catchBlock_exhaustFirst(r, error, ab, rnd, t) ==
    LET r1 == [r EXCEPT !.lastError = error]
        r2 == IF refuses(error, r.attempt).asked
              THEN Logged(r1, [Event("retryIf", r.attempt) EXCEPT
                                  !.error = error,
                                  !.answer = callerRetryIf(error, r.attempt)])
              ELSE r1
        delay == computeDelay(r.attempt, options.baseDelay, options.maxDelay,
                              options.factor, options.jitter, rnd)
    IN IF ab
       THEN Settle(r1, Rejected(error))
       ELSE IF r.attempt = options.maxAttempts
            THEN exhausted(r1)
            ELSE IF refuses(error, r.attempt).rethrow
                 THEN Settle(r2, Rejected(error))
                 ELSE sleep(Logged(r2, [Event("onRetry", r.attempt) EXCEPT
                                           !.error = error, !.delay = delay]),
                            delay, ab, t)

\* Mutant: onRetry is called before the attempts-exhausted check.
catchBlock_hookFirst(r, error, ab, rnd, t) ==
    LET r1 == [r EXCEPT !.lastError = error]
        r2 == IF refuses(error, r.attempt).asked
              THEN Logged(r1, [Event("retryIf", r.attempt) EXCEPT
                                  !.error = error,
                                  !.answer = callerRetryIf(error, r.attempt)])
              ELSE r1
        delay == computeDelay(r.attempt, options.baseDelay, options.maxDelay,
                              options.factor, options.jitter, rnd)
        r3 == Logged(r2, [Event("onRetry", r.attempt) EXCEPT
                             !.error = error, !.delay = delay])
    IN IF ab
       THEN Settle(r1, Rejected(error))
       ELSE IF refuses(error, r.attempt).rethrow
            THEN Settle(r2, Rejected(error))
            ELSE IF r.attempt = options.maxAttempts
                 THEN exhausted(r3)
                 ELSE sleep(r3, delay, ab, t)

\* Mutant: the catch block does not look at the signal.
catchBlock_unaware(r, error, ab, rnd, t) ==
    LET r1 == [r EXCEPT !.lastError = error]
        r2 == IF refuses(error, r.attempt).asked
              THEN Logged(r1, [Event("retryIf", r.attempt) EXCEPT
                                  !.error = error,
                                  !.answer = callerRetryIf(error, r.attempt)])
              ELSE r1
        delay == computeDelay(r.attempt, options.baseDelay, options.maxDelay,
                              options.factor, options.jitter, rnd)
    IN IF refuses(error, r.attempt).rethrow
       THEN Settle(r2, Rejected(error))
       ELSE IF r.attempt = options.maxAttempts
            THEN exhausted(r2)
            ELSE sleep(Logged(r2, [Event("onRetry", r.attempt) EXCEPT
                                      !.error = error, !.delay = delay]),
                       delay, ab, t)

\* The catch block of the loop body.
catchBlock(r, error, ab, rnd, t) ==
    LET r1 == [r EXCEPT !.lastError = error]
        r2 == IF refuses(error, r.attempt).asked
              THEN Logged(r1, [Event("retryIf", r.attempt) EXCEPT
                                  !.error = error,
                                  !.answer = callerRetryIf(error, r.attempt)])
              ELSE r1
        delay == computeDelay(r.attempt, options.baseDelay, options.maxDelay,
                              options.factor, options.jitter, rnd)
    IN IF ab
       THEN Settle(r1, Rejected(error))
       ELSE IF refuses(error, r.attempt).rethrow
            THEN Settle(r2, Rejected(error))
            ELSE IF r.attempt = options.maxAttempts
                 THEN exhausted(r2)
                 ELSE sleep(Logged(r2, [Event("onRetry", r.attempt) EXCEPT
                                           !.error = error, !.delay = delay]),
                            delay, ab, t)

\* fn(attempt) threw error, or the promise it returned rejected with it.
threw(r, error, ab, rnd, t) ==
    catchBlock(Logged(r, [Event("throw", r.attempt) EXCEPT !.error = error]),
               error, ab, rnd, t)

\* Mutant: attempts counts the retries, not the attempts.
returned_retries(r, data) ==
    Settle(Logged(r, [Event("return", r.attempt) EXCEPT !.data = data]),
           Fulfilled(data, r.attempt - 1))

\* await fn(attempt) gave data: return { data, attempts: attempt }.
returned(r, data) ==
    Settle(Logged(r, [Event("return", r.attempt) EXCEPT !.data = data]),
           Fulfilled(data, r.attempt))

\* Mutant: the try block calls fn(attempt) without looking at the signal.
attemptStart_unchecked(r, b, ab, rnd, t) ==
    LET r1 == Logged(r, Event("fn", r.attempt))
        b1 == checkHalfOpen(b, t)
    IN IF mode # "callWithRetry"
       THEN [run |-> [r1 EXCEPT !.pc = "running"],
             breaker |-> b, step |-> StepOf("retry")]
       ELSE IF Admits(b1)
            THEN [run |-> [Logged(r1, Event("op", r.attempt)) EXCEPT !.pc = "running"],
                  breaker |-> b1, step |-> CallStep(b1)]
            ELSE [run |-> threw(r1, CircuitOpenError(b1.failures), ab, rnd, t),
                  breaker |-> b1, step |-> CallStep(b1)]

\* The try block up to its await: the signal check, then fn(attempt); under
\* callWithRetry fn is call(), whose gate may reject before the operation starts.
attemptStart(r, b, ab, rnd, t) ==
    IF ab
    THEN [run |-> catchBlock(r, AbortReason, ab, rnd, t),
          breaker |-> b, step |-> StepOf("retry")]
    ELSE LET r1 == Logged(r, Event("fn", r.attempt))
             b1 == checkHalfOpen(b, t)
         IN IF mode # "callWithRetry"
            THEN [run |-> [r1 EXCEPT !.pc = "running"],
                  breaker |-> b, step |-> StepOf("retry")]
            ELSE IF Invokes(b1)
                 THEN [run |-> [Logged(r1, Event("op", r.attempt)) EXCEPT !.pc = "running"],
                       breaker |-> b1, step |-> CallStep(b1)]
                 ELSE [run |-> threw(r1, CallStep(b1).error, ab, rnd, t),
                       breaker |-> b1, step |-> CallStep(b1)]

\* Mutant: the loop stops one attempt early (attempt < maxAttempts).
loopTest_short(r, b, ab, rnd, t) ==
    IF r.attempt < options.maxAttempts
    THEN attemptStart(r, b, ab, rnd, t)
    ELSE [run |-> exhausted(r), breaker |-> b, step |-> StepOf("retry")]

\* The for statement's test, then the body.
loopTest(r, b, ab, rnd, t) ==
    IF r.attempt <= options.maxAttempts
    THEN attemptStart(r, b, ab, rnd, t)
    ELSE [run |-> exhausted(r), breaker |-> b, step |-> StepOf("retry")]

\* Mutant: maxAttempts is not validated.
retryEntry_unvalidated(r, b, ab, rnd, t) ==
    loopTest([r EXCEPT !.attempt = 1], b, ab, rnd, t)

\* retry() from the call to its first await.  retry is an async function: what
\* it throws rejects the promise it returns, and the call itself throws nothing.
retryEntry(r, b, ab, rnd, t) ==
    IF options.maxAttempts < 1
    THEN [run |-> Settle(r, Rejected(RangeError)), breaker |-> b, step |-> StepOf("retry")]
    ELSE loopTest([r EXCEPT !.attempt = 1], b, ab, rnd, t)

(***************************************************************************)
(* Initial states: the options the caller passes, a fresh breaker, a run   *)
(* not yet started.                                                        *)
(***************************************************************************)
T0 == MaxResetTimeout + 1    \* Date.now() at the start: later than any timeout after 0

NoRetryIf == [present |-> FALSE, accepts |-> {}, until |-> 0]

RetryIfs(names, untils) ==
    {NoRetryIf} \cup
    {[present |-> TRUE, accepts |-> A, until |-> u] :
        A \in (SUBSET names) \ {{}}, u \in untils}

RetryOptions(retryIfs) ==
    [maxAttempts : 0..MaxAttemptsBound,
     baseDelay : 0..MaxDelayBound,
     maxDelay : 0..MaxDelayBound,
     factor : 0..MaxFactor,
     jitter : BOOLEAN,
     retryIf : retryIfs]

CircuitBreakerOptions ==
    [failureThreshold : 1..MaxThreshold,
     resetTimeout : 0..MaxResetTimeout,
     halfOpenSuccesses : 1..MaxThreshold]

DefaultRetryOptions ==
    [maxAttempts |-> MaxAttemptsBound, baseDelay |-> 1, maxDelay |-> MaxDelayBound,
     factor |-> MaxFactor, jitter |-> TRUE, retryIf |-> NoRetryIf]

DefaultBreakerOptions ==
    [failureThreshold |-> MaxThreshold, resetTimeout |-> MaxResetTimeout,
     halfOpenSuccesses |-> 1]

NewBreaker ==
    [state |-> "closed", failures |-> 0, successes |-> 0, lastFailureTime |-> 0,
     hook |-> "returns", hookCalls |-> <<>>]

\* A breaker that failureThreshold failed calls have just opened.
OpenedBreaker ==
    [state |-> "open", failures |-> config.failureThreshold, successes |-> 0,
     lastFailureTime |-> T0, hook |-> "returns", hookCalls |-> <<>>]

NewRun(pc) ==
    [pc |-> pc, attempt |-> 0, lastError |-> NoError, sleepUntil |-> 0,
     outcome |-> Pending, log |-> <<>>]

InitCommon ==
    /\ aborted = FALSE
    /\ inflight = 0
    /\ now = T0
    /\ step = [op |-> "new", from |-> "closed", error |-> NoError, state |-> "-",
               failures |-> 0, invoked |-> FALSE, result |-> "-"]
    /\ sinceSuccess = 0
    /\ probes = 0
    /\ started = 0

\* retry(fn, options)
InitRetry ==
    /\ mode = "retry"
    /\ options \in RetryOptions(RetryIfs({"ErrA", "ErrB"}, 0..MaxAttemptsBound))
    /\ config = DefaultBreakerOptions
    /\ breaker = NewBreaker
    /\ run = NewRun("idle")
    /\ InitCommon

\* new CircuitBreaker(config), used through call(), getState(), getFailures(), reset()
InitBreaker ==
    /\ mode = "direct"
    /\ options = DefaultRetryOptions
    /\ config \in CircuitBreakerOptions
    /\ breaker = NewBreaker
    /\ run = NewRun("none")
    /\ InitCommon

\* new CircuitBreaker({..., onStateChange}) with an onStateChange that throws
InitThrowingHook ==
    /\ mode = "direct"
    /\ options = DefaultRetryOptions
    /\ config \in CircuitBreakerOptions
    /\ breaker = [NewBreaker EXCEPT !.hook = "throws"]
    /\ run = NewRun("none")
    /\ InitCommon

\* breaker.callWithRetry(fn, options), on a new breaker or on one just opened
InitCallWithRetry ==
    /\ mode = "callWithRetry"
    /\ options \in {o \in RetryOptions(RetryIfs(ErrorNames, {1, MaxAttemptsBound})) :
                       /\ o.maxAttempts >= 1
                       /\ ~o.jitter
                       /\ o.factor = 1
                       /\ o.maxDelay = MaxDelayBound
                       /\ o.retryIf.present =>
                             /\ {"ErrA", "CircuitOpenError"} \subseteq o.retryIf.accepts
                             /\ "ErrB" \in o.retryIf.accepts \/ o.retryIf.until > 1}
    /\ config \in {c \in CircuitBreakerOptions : c.halfOpenSuccesses = 1}
    /\ breaker \in {NewBreaker, OpenedBreaker}
    /\ run = NewRun("idle")
    /\ InitCommon

\* computeDelay(attempt, baseDelay, maxDelay, factor, jitter), called on its own
InitDelay ==
    /\ mode = "computeDelay"
    /\ options \in {o \in RetryOptions({NoRetryIf}) :
                       o.maxAttempts = DefaultRetryOptions.maxAttempts}
    /\ config = DefaultBreakerOptions
    /\ breaker = NewBreaker
    /\ run = NewRun("none")
    /\ InitCommon

(***************************************************************************)
(* The backoff calculation.                                                *)
(***************************************************************************)
\* One call of computeDelay, for any attempt number and any Math.random().
ComputeDelay ==
    /\ mode = "computeDelay"
    /\ \E attempt \in 1..(MaxAttemptsBound + 1), rnd \in 0..(RandomSteps - 1) :
          step' = [op |-> "computeDelay", attempt |-> attempt, rnd |-> rnd,
                   delay |-> computeDelay(attempt, options.baseDelay, options.maxDelay,
                                          options.factor, options.jitter, rnd)]
    /\ UNCHANGED <<mode, options, aborted, run, config, breaker, inflight, now,
                   sinceSuccess, probes, started>>

(***************************************************************************)
(* The retry run's segments.                                               *)
(***************************************************************************)
UsesBreaker == mode = "callWithRetry"

Adopt(res) ==
    /\ run' = res.run
    /\ breaker' = res.breaker
    /\ step' = res.step

\* retry(fn, options) is called: validation, then the first attempt starts.
RetryCall ==
    /\ run.pc = "idle"
    /\ \E rnd \in 0..(RandomSteps - 1) :
          Adopt(retryEntry(run, Entering(breaker), aborted, rnd, now))
    /\ UNCHANGED <<mode, options, aborted, config, inflight, now, sinceSuccess, probes, started>>

\* The run's log after a step of call() that took the breaker from b0 to b.
Opening(r, b0, b) ==
    IF b0.state # "open" /\ b.state = "open"
    THEN Logged(r, Event("opened", r.attempt))
    ELSE r

\* await fn(attempt) resolves; under callWithRetry call() ran onSuccess() first,
\* and rejects when the hook threw in it.
OpSucceed ==
    /\ run.pc = "running"
    /\ (UsesBreaker /\ breaker.hook = "throws") =>
          breaker.failures < MaxFailures /\ breaker.successes < MaxSuccesses
    /\ LET b == IF UsesBreaker
                THEN callReturns(Entering(breaker), now)
                ELSE Entering(breaker)
       IN /\ breaker' = b
          /\ \E v \in Values, rnd \in 0..(RandomSteps - 1) :
                run' = IF Thrown(b)
                       THEN threw(Opening(run, breaker, b), HookError, aborted, rnd, now)
                       ELSE returned(run, v)
          /\ step' = [StepOf("settled") EXCEPT
                         !.error = SettledWith(b, NoError), !.result = "returned"]
    /\ UNCHANGED <<mode, options, aborted, config, inflight, now, sinceSuccess, probes, started>>

\* await fn(attempt) rejects; under callWithRetry call() ran onFailure() first.
OpFail ==
    /\ run.pc = "running"
    /\ UsesBreaker => breaker.failures < MaxFailures
    /\ LET b == IF UsesBreaker
                THEN callThrows(Entering(breaker), now)
                ELSE Entering(breaker)
       IN /\ breaker' = b
          /\ \E e \in OpErrors, rnd \in 0..(RandomSteps - 1) :
                /\ run' = threw(Opening(run, breaker, b), SettledWith(b, e),
                                aborted, rnd, now)
                /\ step' = [StepOf("settled") EXCEPT
                               !.error = SettledWith(b, e), !.result = "threw"]
    /\ UNCHANGED <<mode, options, aborted, config, inflight, now, sinceSuccess, probes, started>>

\* Mutant: the loop goes on without counting the attempt.
SleepDone_sameAttempt ==
    /\ run.pc = "sleeping"
    /\ ~aborted
    /\ now' = Max(now, run.sleepUntil)
    /\ \E rnd \in 0..(RandomSteps - 1) :
          Adopt(loopTest(run, Entering(breaker), aborted, rnd, now'))
    /\ UNCHANGED <<mode, options, aborted, config, inflight, sinceSuccess, probes, started>>

\* The timer of sleep() fires, no earlier than it is due: the loop goes on with
\* the next attempt.
SleepDone ==
    /\ run.pc = "sleeping"
    /\ ~aborted
    /\ now' = Max(now, run.sleepUntil)
    /\ \E rnd \in 0..(RandomSteps - 1) :
          Adopt(loopTest([run EXCEPT !.attempt = @ + 1], Entering(breaker),
                         aborted, rnd, now'))
    /\ UNCHANGED <<mode, options, aborted, config, inflight, sinceSuccess, probes, started>>

\* Mutant: the aborted sleep rejects with the error of the attempt before it.
SleepAbort_lastError ==
    /\ run.pc = "sleeping"
    /\ aborted
    /\ run' = Settle(run, Rejected(run.lastError))
    /\ breaker' = Entering(breaker)
    /\ step' = StepOf("retry")
    /\ UNCHANGED <<mode, options, aborted, config, inflight, now, sinceSuccess, probes, started>>

\* The abort listener of sleep() has run: the pending sleep rejects.
SleepAbort ==
    /\ run.pc = "sleeping"
    /\ aborted
    /\ run' = Settle(run, Rejected(AbortReason))
    /\ breaker' = Entering(breaker)
    /\ step' = StepOf("retry")
    /\ UNCHANGED <<mode, options, aborted, config, inflight, now, sinceSuccess, probes, started>>

\* controller.abort()
Abort ==
    /\ mode # "direct"
    /\ ~aborted
    /\ run.pc # "done"
    /\ aborted' = TRUE
    /\ run' = Logged(run, Event("abort", run.attempt))
    /\ breaker' = Entering(breaker)
    /\ step' = StepOf("abort")
    /\ UNCHANGED <<mode, options, config, inflight, now, sinceSuccess, probes, started>>

\* Time passes.
Tick ==
    /\ now < T0 + MaxTicks
    /\ now' = now + 1
    /\ breaker' = Entering(breaker)
    /\ step' = StepOf("tick")
    /\ UNCHANGED <<mode, options, aborted, run, config, inflight, sinceSuccess, probes, started>>

(***************************************************************************)
(* The breaker's public operations, called directly.                       *)
(***************************************************************************)
\* The successes counted since the breaker became half-open, after a step that
\* leaves the breaker as b.
ProbesAt(b) == IF breaker.state # "half-open" /\ b.state = "half-open" THEN 0 ELSE probes

\* The operations started since the breaker became half-open, after a step that
\* leaves the breaker as b and starts one more operation or none.
StartedAt(b, more) ==
    IF b.state = "half-open"
    THEN Min(started + more, MaxThreshold + MaxOutstanding)
    ELSE 0

\* call(fn) up to await fn(): the gate, then the operation starts.
CallStart(limit) ==
    /\ mode # "retry"
    /\ inflight < limit
    /\ LET b == checkHalfOpen(Entering(breaker), now)
       IN /\ breaker' = b
          /\ step' = CallStep(b)
          /\ inflight' = IF Invokes(b) THEN inflight + 1 ELSE inflight
          /\ probes' = ProbesAt(b)
          /\ started' = StartedAt(b, IF Invokes(b) THEN 1 ELSE 0)
    /\ UNCHANGED <<mode, options, aborted, run, config, now, sinceSuccess>>

\* await fn() resolves in call(): onSuccess(), return result; when the hook
\* throws in onSuccess(), the catch block runs onFailure() and rethrows.
CallResolve ==
    /\ inflight > 0
    /\ breaker.hook = "throws" =>
          breaker.failures < MaxFailures /\ breaker.successes < MaxSuccesses
    /\ breaker' = callReturns(Entering(breaker), now)
    /\ inflight' = inflight - 1
    /\ sinceSuccess' = 0
    /\ probes' = IF breaker.state = "half-open"
                 THEN Min(probes + 1, MaxThreshold + 1)
                 ELSE probes
    /\ started' = StartedAt(breaker', 0)
    /\ step' = [StepOf("settled") EXCEPT
                   !.error = SettledWith(breaker', NoError), !.result = "returned"]
    /\ UNCHANGED <<mode, options, aborted, run, config, now>>

\* await fn() rejects in call(): onFailure(), throw error.
CallReject ==
    /\ inflight > 0
    /\ breaker.failures < MaxFailures
    /\ breaker' = callThrows(Entering(breaker), now)
    /\ \E e \in OpErrors :
          step' = [StepOf("settled") EXCEPT
                      !.error = SettledWith(breaker', e), !.result = "threw"]
    /\ inflight' = inflight - 1
    /\ sinceSuccess' = Min(sinceSuccess + 1, MaxFailures)
    /\ started' = StartedAt(breaker', 0)
    /\ UNCHANGED <<mode, options, aborted, run, config, now, probes>>

GetState ==
    /\ mode # "retry"
    /\ LET b == checkHalfOpen(Entering(breaker), now)
       IN /\ breaker' = b
          /\ step' = IF Thrown(b)
                     THEN [StepOf("getState") EXCEPT !.error = HookError]
                     ELSE [StepOf("getState") EXCEPT !.state = b.state]
          /\ probes' = ProbesAt(b)
          /\ started' = StartedAt(b, 0)
    /\ UNCHANGED <<mode, options, aborted, run, config, inflight, now, sinceSuccess>>

GetFailures ==
    /\ mode # "retry"
    /\ breaker' = Entering(breaker)
    /\ step' = [StepOf("getFailures") EXCEPT !.failures = breaker.failures]
    /\ UNCHANGED <<mode, options, aborted, run, config, inflight, now, sinceSuccess, probes, started>>

Reset ==
    /\ mode # "retry"
    /\ breaker' = reset(Entering(breaker))
    /\ started' = StartedAt(breaker', 0)
    /\ step' = [StepOf("reset") EXCEPT !.error = SettledWith(breaker', NoError)]
    /\ UNCHANGED <<mode, options, aborted, run, config, inflight, now, sinceSuccess, probes>>

(***************************************************************************)
(* Specifications.                                                         *)
(***************************************************************************)
\* One retry(fn, options) run.
NextRetry ==
    \/ RetryCall
    \/ OpSucceed
    \/ OpFail
    \/ SleepDone
    \/ SleepAbort
    \/ Abort

SpecRetry == InitRetry /\ [][NextRetry]_vars

\* One retry(fn, options) run that is called, whose operation settles every time
\* it is invoked and whose timer fires, or whose abort listener runs, every time
\* it sleeps.
SpecRetryFair ==
    /\ SpecRetry
    /\ WF_vars(RetryCall)
    /\ WF_vars(OpSucceed \/ OpFail)
    /\ WF_vars(SleepDone)
    /\ WF_vars(SleepAbort)

\* One breaker used directly, calls overlapping.
NextBreaker ==
    \/ CallStart(MaxOutstanding)
    \/ CallResolve
    \/ CallReject
    \/ GetState
    \/ GetFailures
    \/ Reset
    \/ Tick

SpecBreaker == InitBreaker /\ [][NextBreaker]_vars

\* One breaker whose onStateChange throws, used directly, calls overlapping.
SpecThrowingHook == InitThrowingHook /\ [][NextBreaker]_vars

\* One breaker used through call() and the getters, one call at a time.
NextSequential ==
    \/ CallStart(1)
    \/ CallResolve
    \/ CallReject
    \/ GetState
    \/ GetFailures
    \/ Tick

SpecSequential == InitBreaker /\ [][NextSequential]_vars

\* One callWithRetry run, on a breaker nothing else uses meanwhile.
NextCallWithRetry ==
    \/ RetryCall
    \/ OpSucceed
    \/ OpFail
    \/ SleepDone
    \/ SleepAbort
    \/ Abort
    \/ Tick

SpecCallWithRetry == InitCallWithRetry /\ [][NextCallWithRetry]_vars

\* One breaker used through call(), the getters and reset(), one call at a time.
NextSequentialReset ==
    \/ NextSequential
    \/ Reset

SpecSequentialReset == InitBreaker /\ [][NextSequentialReset]_vars

\* computeDelay, applied to every input.
NextDelay == ComputeDelay

SpecDelay == InitDelay /\ [][NextDelay]_vars

\* Every scenario.
Init == InitRetry \/ InitBreaker \/ InitCallWithRetry
Next == NextBreaker \/ NextCallWithRetry \/ CallStart(1)
Spec == Init /\ [][Next]_vars

(***************************************************************************)
(* Properties of retry().                                                  *)
(***************************************************************************)
Done == run.pc = "done"
Of(kind) == SelectSeq(run.log, LAMBDA e : e.kind = kind)
M == options.maxAttempts

\* The caller's retryIf is absent, or accepts every error at every attempt.
AlwaysRetries ==
    \/ ~options.retryIf.present
    \/ \A e \in OpErrors, n \in 1..M : callerRetryIf(e, n)

\* C1: with maxAttempts = M >= 1, no cancellation and a retryIf that is absent or
\* always true, a run in which every invocation of fn fails invokes fn exactly M
\* times, with attempts 1..M in order, and ends with RetryError(attempts = M,
\* lastError = the error of the M-th invocation).
C1_ExhaustedAfterMaxAttempts ==
    (Done /\ M >= 1 /\ ~aborted /\ AlwaysRetries /\ Of("return") = <<>>)
    => /\ Len(Of("fn")) = M
       /\ \A i \in 1..Len(Of("fn")) : Of("fn")[i].attempt = i
       /\ Len(Of("throw")) = M
       /\ run.outcome = Rejected(RetryError(M, Of("throw")[M].error))

C1_Witness ==
    /\ Done /\ ~aborted /\ AlwaysRetries /\ options.retryIf.present
    /\ M = MaxAttemptsBound
    /\ run.outcome.error.name = "RetryError"
    /\ Len(Of("throw")) = M
    /\ Of("throw")[1].error # Of("throw")[M].error

\* C2: when invocation k is the first to succeed, the run is fulfilled with that
\* invocation's result and attempts = k, and nothing follows the success: no
\* invocation, no onRetry, no sleep.  A success at attempt 1 has seen no sleep and
\* no onRetry at all.
C2_SuccessEndsRun ==
    \A i \in 1..Len(run.log) :
        run.log[i].kind = "return" =>
            /\ i = Len(run.log)
            /\ Done
            /\ run.outcome = Fulfilled(run.log[i].data, run.log[i].attempt)
            /\ Len(Of("fn")) = run.log[i].attempt
            /\ Len(Of("throw")) = run.log[i].attempt - 1
            /\ run.log[i].attempt = 1 => Of("sleep") = <<>> /\ Of("onRetry") = <<>>

C2_Witness ==
    /\ Done
    /\ run.outcome.kind = "fulfilled"
    /\ run.outcome.attempts = 2
    /\ Len(Of("sleep")) = 1

\* No abort() had been called when entry i of the log was written.
NotAbortedBefore(i) == \A j \in 1..i : run.log[j].kind # "abort"

\* The caller's retryIf is present and returns false for the error of log entry i.
Refused(i) ==
    /\ options.retryIf.present
    /\ ~callerRetryIf(run.log[i].error, run.log[i].attempt)

\* C9: when fn fails on attempt k with the signal not cancelled and retryIf returns
\* false for (error, k), the run rejects with that error unwrapped, fn has been
\* invoked exactly k times, and no onRetry, sleep or invocation follows; this holds
\* for k = maxAttempts too.
C9_RefusedErrorPropagates ==
    \A i \in 1..Len(run.log) :
        (run.log[i].kind = "throw" /\ NotAbortedBefore(i) /\ Refused(i))
        => /\ Done
           /\ run.outcome = Rejected(run.log[i].error)
           /\ Len(Of("fn")) = run.log[i].attempt
           /\ \A j \in (i + 1)..Len(run.log) :
                 run.log[j].kind \notin {"fn", "onRetry", "sleep"}

C9_Witness ==
    /\ Done /\ ~aborted
    /\ M = MaxAttemptsBound
    /\ Len(Of("throw")) = M
    /\ options.retryIf.present
    /\ ~callerRetryIf(Of("throw")[M].error, M)
    /\ run.outcome = Rejected(Of("throw")[M].error)

\* The delay after failed attempt n with jitter off.
CappedDelay(n) ==
    Min(options.baseDelay * Pow(options.factor, n - 1), options.maxDelay)

\* C10: onRetry is called once for each failed attempt that is retried, after the
\* failure and right before the sleep, with that attempt's error and number and
\* the delay then slept; not after the failure of attempt maxAttempts, after a
\* refusal by retryIf, after a cancellation or after a success.  A run that
\* succeeds at attempt k has made k-1 calls, tagged 1..k-1; with jitter off their
\* delays are min(baseDelay * factor^(i-1), maxDelay).
C10_OnRetryOncePerRetriedFailure ==
    /\ \A i \in 1..Len(run.log) :
          run.log[i].kind = "onRetry" =>
              /\ i < Len(run.log)
              /\ run.log[i + 1].kind = "sleep"
              /\ run.log[i + 1].delay = run.log[i].delay
              /\ \E j \in 1..(i - 1) :
                    /\ run.log[j].kind = "throw"
                    /\ run.log[j].attempt = run.log[i].attempt
                    /\ run.log[j].error = run.log[i].error
                    /\ \A k \in (j + 1)..(i - 1) : run.log[k].kind = "retryIf"
              /\ run.log[i].attempt < M
              /\ ~Refused(i)
              /\ NotAbortedBefore(i)
              /\ \A j \in 1..i : run.log[j].kind # "return"
              /\ ~options.jitter => run.log[i].delay = CappedDelay(run.log[i].attempt)
    /\ \A i \in 1..Len(run.log) :
          run.log[i].kind = "sleep" => i > 1 /\ run.log[i - 1].kind = "onRetry"
    /\ \A i \in 1..Len(run.log) :
          (run.log[i].kind = "fn" /\ run.log[i].attempt > 1)
          => /\ run.log[i - 1].kind = "sleep"
             /\ run.log[i - 1].attempt = run.log[i].attempt - 1
    /\ \A i \in 1..Len(Of("onRetry")) : Of("onRetry")[i].attempt = i
    /\ \A i \in 1..Len(run.log) :
          run.log[i].kind = "return" => Len(Of("onRetry")) = run.log[i].attempt - 1

C10_Witness ==
    /\ Done
    /\ run.outcome.kind = "fulfilled"
    /\ run.outcome.attempts = MaxAttemptsBound
    /\ ~options.jitter
    /\ Len(Of("onRetry")) = MaxAttemptsBound - 1
    /\ Of("onRetry")[1].delay = 1
    /\ Of("onRetry")[2].delay = 2

(***************************************************************************)
(* Properties of retry() under cancellation.                               *)
(***************************************************************************)
\* Entry i of the log is an abort() made while the run was in a backoff sleep.
AbortInSleep(i) ==
    /\ run.log[i].kind = "abort"
    /\ i > 1
    /\ run.log[i - 1].kind = "sleep"

\* C11: when the signal is cancelled while the run is in a backoff sleep, the run
\* makes no further call (fn, retryIf, onRetry, sleep) and ends rejected with the
\* signal's reason: not with RetryError, not with the error of the attempt before
\* the sleep, however many attempts remain.
C11_AbortDuringSleep ==
    \A i \in 1..Len(run.log) :
        AbortInSleep(i) =>
            /\ i = Len(run.log)
            /\ run.pc \in {"sleeping", "done"}
            /\ Len(Of("fn")) = run.log[i].attempt
            /\ Done => run.outcome = Rejected(AbortReason)

C11_Witness ==
    /\ Done
    /\ Len(run.log) > 1
    /\ AbortInSleep(Len(run.log))
    /\ run.outcome = Rejected(AbortReason)
    /\ run.lastError \in OpErrors
    /\ run.attempt = 1
    /\ M = MaxAttemptsBound

\* C12: with maxAttempts >= 1, a step of the run that would start an attempt (the
\* call of retry, or the end of a sleep) while the signal is cancelled ends the
\* run rejected with the signal's reason and makes no call at all: fn is not
\* invoked, retryIf is not consulted, no onRetry, no sleep, no further attempt.
C12_AbortedBeforeAttempt ==
    [][ (/\ run.pc \in {"idle", "sleeping"}
         /\ run'.pc # run.pc
         /\ aborted
         /\ M >= 1)
        => /\ run'.pc = "done"
           /\ run'.outcome = Rejected(AbortReason)
           /\ run'.log = run.log ]_vars

C12_Witness ==
    /\ Done
    /\ aborted
    /\ run.outcome = Rejected(AbortReason)
    /\ Of("fn") = <<>>
    /\ run.attempt = 1
    /\ M = MaxAttemptsBound
    /\ options.retryIf.present

\* C13: when fn fails on an attempt and the signal is cancelled by the time the
\* failure is handled, the run ends rejected with fn's own error, unwrapped, and
\* nothing follows the failure: no retryIf call, no onRetry, no sleep, no attempt,
\* however many attempts remain.
C13_AbortedFailureRethrown ==
    \A i \in 1..Len(run.log) :
        (run.log[i].kind = "throw" /\ ~NotAbortedBefore(i))
        => /\ i = Len(run.log)
           /\ Done
           /\ run.outcome = Rejected(run.log[i].error)
           /\ Len(Of("fn")) = run.log[i].attempt

C13_Witness ==
    /\ Done
    /\ aborted
    /\ run.outcome.error \in OpErrors
    /\ run.attempt = 1
    /\ M = MaxAttemptsBound
    /\ options.retryIf.present
    /\ callerRetryIf(run.outcome.error, 1)
    /\ run.log[Len(run.log)].kind = "throw"
    /\ run.log[Len(run.log) - 1].kind = "abort"

(***************************************************************************)
(* Properties of computeDelay.                                             *)
(***************************************************************************)
\* baseDelay * factor^(n-1), by repeated multiplication.
RECURSIVE Exponential(_)
Exponential(n) ==
    IF n = 1 THEN options.baseDelay ELSE Exponential(n - 1) * options.factor

Capped(n) == Min(Exponential(n), options.maxDelay)

C17_AsClaimed ==
    (step.op = "computeDelay" /\ options.jitter) =>
        /\ step.delay \in Int
        /\ 0 <= step.delay
        /\ step.delay < Capped(step.attempt)

\* C17, amended: with jitter on, every delay d computed for attempt n is an integer
\* with 0 <= d <= capped, and d < capped whenever capped > 0; when capped is 0 the
\* delay is 0.
C17_JitterWithinCap ==
    (step.op = "computeDelay" /\ options.jitter) =>
        /\ step.delay \in Int
        /\ 0 <= step.delay
        /\ step.delay <= Capped(step.attempt)
        /\ Capped(step.attempt) > 0 => step.delay < Capped(step.attempt)
        /\ Capped(step.attempt) = 0 => step.delay = 0

C17_Witness ==
    /\ step.op = "computeDelay"
    /\ options.jitter
    /\ Capped(step.attempt) = MaxDelayBound
    /\ step.rnd = RandomSteps - 1
    /\ step.delay = MaxDelayBound - 1

(***************************************************************************)
(* Properties of retry(): validation.                                      *)
(***************************************************************************)
NoAttemptMade == \A i \in 1..Len(run.log) : run.log[i].kind \notin {"fn", "onRetry", "sleep"}

Unwrapped == OpErrors \cup {AbortReason}

BoundedRun ==
    /\ Len(Of("fn")) <= M
    /\ Len(Of("onRetry")) <= M - 1
    /\ \A i \in 1..Len(Of("fn")) : Of("fn")[i].attempt = i
    /\ IF Done
       THEN \/ run.outcome.kind = "fulfilled" /\ run.outcome.data \in Values
            \/ /\ run.outcome.kind = "rejected"
               /\ \/ run.outcome.error \in Unwrapped
                  \/ /\ run.outcome.error.name = "RetryError"
                     /\ run.outcome.error.attempts = M
       ELSE run.outcome = Pending

\* C23: a run with maxAttempts >= 1 whose invocations of fn all settle and whose
\* sleeps all end (by the timer or by an abort) terminates, with one outcome that
\* never changes afterwards: a result, RetryError, or an unwrapped error; it has
\* then invoked fn at most maxAttempts times, with attempts 1, 2, 3, ... in order,
\* and onRetry at most maxAttempts - 1 times.
C23_RunTerminates ==
    /\ [](M >= 1 => BoundedRun)
    /\ [][Done => run' = run]_vars
    /\ (M >= 1) ~> Done

C23_Witness ==
    /\ Done
    /\ M = MaxAttemptsBound
    /\ Len(Of("fn")) = M
    /\ Len(Of("onRetry")) = M - 1
    /\ run.outcome.error.name = "RetryError"

(***************************************************************************)
(* Properties of CircuitBreaker.                                           *)
(***************************************************************************)
FailedSettle == step.op = "settled" /\ step.error # NoError
SucceededSettle == step.op = "settled" /\ step.error = NoError
Elapsed == now - breaker.lastFailureTime

\* C3: with one call at a time on a breaker that starts closed with no failures,
\* while the breaker is closed its failure count is the number of failed calls
\* since the last successful one; a success while closed leaves it closed with
\* count 0; and it leaves closed only for open, at the failed call that brings
\* the count to failureThreshold.
C3_ClosedCountsConsecutiveFailures ==
    /\ breaker.state = "closed" =>
          /\ breaker.failures = sinceSuccess
          /\ breaker.failures < config.failureThreshold
    /\ (SucceededSettle /\ step.from = "closed") =>
          /\ breaker.state = "closed"
          /\ breaker.failures = 0
    /\ (step.from = "closed" /\ breaker.state # "closed") =>
          /\ FailedSettle
          /\ breaker.state = "open"
          /\ breaker.failures = config.failureThreshold
          /\ sinceSuccess = config.failureThreshold

C3_Witness ==
    /\ FailedSettle
    /\ step.from = "closed"
    /\ breaker.state = "open"
    /\ config.failureThreshold = MaxThreshold
    /\ breaker.failures = MaxThreshold

\* C4: a call() made while the breaker is open and less than resetTimeout has
\* passed since the last failure throws CircuitOpenError with the current failure
\* count, does not start the operation, and leaves state, failures, successes and
\* lastFailureTime as they were; other calls may be outstanding.
C4_RejectedWhileOpen ==
    [][ (step'.op = "call" /\ breaker.state = "open" /\ Elapsed < config.resetTimeout)
        => /\ step'.error = CircuitOpenError(breaker.failures)
           /\ ~step'.invoked
           /\ inflight' = inflight
           /\ breaker'.state = breaker.state
           /\ breaker'.failures = breaker.failures
           /\ breaker'.successes = breaker.successes
           /\ breaker'.lastFailureTime = breaker.lastFailureTime ]_vars

C4_Witness ==
    /\ step.op = "call"
    /\ step.error.name = "CircuitOpenError"
    /\ step.error.failures = breaker.failures
    /\ breaker.state = "open"
    /\ inflight > 0

\* C5: the state goes from open to half-open only in a getState() or call() step
\* made when at least resetTimeout has passed since the last failure; and every
\* getState() or call() on an open breaker at such a time makes that change
\* before it acts, so getState() then never returns "open".
C5_LazyHalfOpen ==
    [][ /\ (breaker.state = "open" /\ breaker'.state = "half-open")
           => /\ step'.op \in {"getState", "call"}
              /\ Elapsed >= config.resetTimeout
        /\ (step'.op \in {"getState", "call"} /\ breaker.state = "open"
              /\ Elapsed >= config.resetTimeout)
           => /\ breaker'.state = "half-open"
              /\ breaker'.hookCalls = << <<"open", "half-open">> >>
              /\ step'.op = "getState" => step'.state = "half-open"
              /\ step'.op = "call" => step'.invoked
        /\ (step'.op = "getState" /\ step'.state = "open")
           => Elapsed < config.resetTimeout ]_vars

C5_Witness ==
    /\ step.op = "getState"
    /\ step.from = "open"
    /\ step.state = "half-open"
    /\ config.resetTimeout = MaxResetTimeout
    /\ Elapsed = MaxResetTimeout

\* C6: with one call at a time on a half-open breaker, a failed call opens it; a
\* successful call leaves it half-open while the successes since it became
\* half-open are fewer than halfOpenSuccesses, and the success that reaches
\* halfOpenSuccesses closes it with failure count 0.
C6_HalfOpenProbing ==
    /\ (FailedSettle /\ step.from = "half-open") => breaker.state = "open"
    /\ (SucceededSettle /\ step.from = "half-open") =>
          IF probes = config.halfOpenSuccesses
          THEN breaker.state = "closed" /\ breaker.failures = 0
          ELSE breaker.state = "half-open" /\ probes < config.halfOpenSuccesses

C6_Witness ==
    /\ SucceededSettle
    /\ step.from = "half-open"
    /\ breaker.state = "closed"
    /\ config.halfOpenSuccesses = MaxThreshold
    /\ probes = MaxThreshold

\* C14: onStateChange is called exactly once in each step that changes the
\* breaker's state, with (the state before, the state after), and not at all in a
\* step that leaves the state as it was (a rejected call, a success while closed,
\* a failure below the threshold, reset() when closed, getState() before the
\* timeout); calls may overlap, and a failure that finds the breaker already open
\* calls no hook.
C14_HookOncePerTransition ==
    /\ step.from # breaker.state =>
          breaker.hookCalls = << <<step.from, breaker.state>> >>
    /\ step.from = breaker.state => breaker.hookCalls = <<>>

C14_Witness ==
    /\ FailedSettle
    /\ step.from = "open"
    /\ breaker.state = "open"
    /\ breaker.failures > config.failureThreshold
    /\ breaker.hookCalls = <<>>

\* C15: reset() leaves the breaker closed with failure count 0 and half-open
\* success count 0, whatever the state, the counters, the thresholds and the time
\* were, also while calls are outstanding.
C15_ResetClosesAndZeroes ==
    step.op = "reset" =>
        /\ breaker.state = "closed"
        /\ breaker.failures = 0
        /\ breaker.successes = 0

C15_Witness ==
    /\ step.op = "reset"
    /\ step.from = "half-open"
    /\ probes = 1
    /\ inflight > 0
    /\ breaker.hookCalls = << <<"half-open", "closed">> >>

\* C19, as claimed: the half-open success count is 0 in every reachable state in
\* which the breaker is not half-open (it is reset on every transition into
\* half-open and out of it, to closed and to open alike).
C19_AsClaimed == breaker.state # "half-open" => breaker.successes = 0

\* C19, amended: the half-open success count is 0 whenever the breaker has just
\* become half-open and whenever it is closed, and it stays below
\* halfOpenSuccesses; a failure that takes the breaker from half-open to open
\* leaves the count as it was.
C19_SuccessCountReset ==
    /\ (step.from # "half-open" /\ breaker.state = "half-open") => breaker.successes = 0
    /\ breaker.state = "closed" => breaker.successes = 0
    /\ breaker.successes < config.halfOpenSuccesses
    /\ (FailedSettle /\ step.from = "half-open") =>
          /\ breaker.state = "open"
          /\ breaker.successes = probes

C19_Witness ==
    /\ FailedSettle
    /\ step.from = "half-open"
    /\ breaker.state = "open"
    /\ breaker.successes = 1
    /\ inflight = 0

\* C20: between the moment the breaker becomes half-open and the moment it next
\* leaves half-open, at most halfOpenSuccesses operations are started through
\* call(), also when several calls are outstanding at once.
C20_HalfOpenLimitsCalls ==
    breaker.state = "half-open" => started <= config.halfOpenSuccesses

\* The breaker as a step finds it, had its hook been one that returns.
Calm(b) == [Entering(b) EXCEPT !.hook = "returns"]

SameCounts(b1, b2) ==
    /\ b1.state = b2.state
    /\ b1.failures = b2.failures
    /\ b1.successes = b2.successes

\* C21: after a step of call() or a reset() in which onStateChange threw, the
\* breaker's state, failure count and half-open success count are what the same
\* step leaves with a hook that returns; so a success that closes the breaker is
\* not also recorded as a failure.
C21_ThrowingHookKeepsState ==
    [][ Thrown(breaker') =>
           /\ step'.op = "call" =>
                 SameCounts(breaker', checkHalfOpen(Calm(breaker), now))
           /\ step'.op = "reset" =>
                 SameCounts(breaker', reset(Calm(breaker)))
           /\ (step'.op = "settled" /\ step'.result = "returned") =>
                 SameCounts(breaker', callReturns(Calm(breaker), now))
           /\ (step'.op = "settled" /\ step'.result = "threw") =>
                 SameCounts(breaker', callThrows(Calm(breaker), now)) ]_vars

\* C22: with failureThreshold >= 1, a hook that returns, and calls that do not
\* overlap, in every reachable state the breaker is closed exactly when its
\* failure count is below failureThreshold; so an open or half-open breaker has
\* failure count >= failureThreshold, and so does every CircuitOpenError.
C22_ClosedIffBelowThreshold ==
    /\ breaker.state = "closed" <=> breaker.failures < config.failureThreshold
    /\ step.error.name = "CircuitOpenError" =>
          step.error.failures >= config.failureThreshold

C22_Witness ==
    /\ step.op = "call"
    /\ step.error.name = "CircuitOpenError"
    /\ step.error.failures > config.failureThreshold
    /\ config.failureThreshold = MaxThreshold
    /\ breaker.state = "open"

(***************************************************************************)
(* Properties of callWithRetry().                                          *)
(***************************************************************************)
Ops(r) == SelectSeq(r.log, LAMBDA e : e.kind = "op")

\* What the caller's retryIf decides for an error: retry when there is none.
CallerDecision(error, attempt) ==
    options.retryIf.present => callerRetryIf(error, attempt)

\* C7, as claimed: once the breaker has moved to open during the retry sequence,
\* the run ends with CircuitOpenError and the wrapped operation is not started
\* again, whatever maxAttempts, failureThreshold, resetTimeout and the delay are.
\* Stated for the runs in which the sequence does go on after the breaker opened:
\* attempts remain, retryIf accepts the error, the signal is never cancelled.
C7_AsClaimed ==
    \A i \in 1..Len(run.log) :
        (/\ run.log[i].kind = "opened"
         /\ run.log[i].attempt < M
         /\ ~aborted
         /\ CallerDecision(run.log[i + 1].error, run.log[i].attempt))
        => /\ Done => run.outcome.error.name = "CircuitOpenError"
           /\ \A j \in (i + 1)..Len(run.log) : run.log[j].kind # "op"

\* C7, amended: whenever an attempt of callWithRetry starts, the signal not
\* cancelled, while the breaker is open and less than resetTimeout has passed since
\* its last failure, the run ends at that attempt with CircuitOpenError carrying
\* the failure count, and the wrapped operation is not started.
C7_OpenBreakerEndsRetry ==
    [][ (/\ run.pc \in {"idle", "sleeping"}
         /\ run'.pc # run.pc
         /\ ~aborted
         /\ breaker.state = "open"
         /\ now' - breaker.lastFailureTime < config.resetTimeout)
        => /\ run'.pc = "done"
           /\ run'.outcome = Rejected(CircuitOpenError(breaker.failures))
           /\ Ops(run') = Ops(run)
           /\ breaker'.state = "open" ]_vars

C7_Witness ==
    /\ Done
    /\ run.outcome.error.name = "CircuitOpenError"
    /\ run.attempt < M
    /\ \E i \in 1..Len(run.log) :
          /\ run.log[i].kind = "opened"
          /\ run.log[i].attempt = run.attempt - 1
          /\ \A j \in (i + 1)..Len(run.log) : run.log[j].kind # "op"

\* C8: an attempt that call() rejects with CircuitOpenError ends the run with that
\* error unwrapped: no retryIf call, onRetry, sleep or attempt follows, even when
\* the caller's retryIf accepts CircuitOpenError.  For any other error, not under
\* cancellation, the caller's retryIf is asked if there is one and the run goes on
\* exactly when it accepts (or there is none).
C8_CircuitOpenNeverRetried ==
    \A i \in 1..Len(run.log) :
        run.log[i].kind = "throw" =>
            IF run.log[i].error.name = "CircuitOpenError"
            THEN /\ i = Len(run.log)
                 /\ Done
                 /\ run.outcome = Rejected(run.log[i].error)
            ELSE NotAbortedBefore(i) =>
                 /\ options.retryIf.present =>
                       /\ i < Len(run.log)
                       /\ run.log[i + 1].kind = "retryIf"
                       /\ run.log[i + 1].error = run.log[i].error
                       /\ run.log[i + 1].attempt = run.log[i].attempt
                       /\ run.log[i + 1].answer =
                             callerRetryIf(run.log[i].error, run.log[i].attempt)
                 /\ ~options.retryIf.present =>
                       \A j \in 1..Len(run.log) : run.log[j].kind # "retryIf"
                 /\ IF CallerDecision(run.log[i].error, run.log[i].attempt)
                    THEN IF run.log[i].attempt = M
                         THEN /\ Done
                              /\ run.outcome = Rejected(RetryError(M, run.log[i].error))
                         ELSE \E j \in (i + 1)..Len(run.log) :
                                 /\ run.log[j].kind = "onRetry"
                                 /\ run.log[j].attempt = run.log[i].attempt
                    ELSE /\ Done
                         /\ run.outcome = Rejected(run.log[i].error)
                         /\ \A j \in (i + 1)..Len(run.log) :
                               run.log[j].kind \notin {"fn", "onRetry", "sleep"}

C8_Witness ==
    /\ Done
    /\ run.outcome.error.name = "CircuitOpenError"
    /\ run.attempt = 2
    /\ run.attempt < M
    /\ options.retryIf.present
    /\ callerRetryIf(run.outcome.error, run.attempt)
    /\ run.log[Len(run.log)].kind = "throw"

====
